---- MODULE Spec2Model ----
(***************************************************************************)
(* The list comparator of hubblestack (hubblestack/comparators/list.py):   *)
(* the six rule handlers size, match, match_any, match_all,                *)
(* match_any_if_keyvalue_matches and filter_compare, each a call/return    *)
(* computation over (result_to_compare, args).  A handler is an operator   *)
(* computed as the code computes it; an action applies it to the inputs.   *)
(* A Python exception leaving a handler is the outcome status "raise".     *)
(***************************************************************************)
EXTENDS Integers, Sequences, FiniteSets

VARIABLES result_to_compare, args, ret, calls, given, pc

vars == <<result_to_compare, args, ret, calls, given, pc>>

(***************************************************************************)
(* Bounds of the model.                                                    *)
(***************************************************************************)
\* longest actual sequence handed to a handler
MaxLen == 2
\* longest expected / pattern list inside a rule
MaxExp == 2

(***************************************************************************)
(* Python values.  Every value is a record of one shape:                   *)
(*   t = "int"  : the integer n                                            *)
(*   t = "str"  : the string whose characters are s                        *)
(*   t = "dict" : the mapping whose items, in insertion order, are d       *)
(*   t = "none" : None / an absent rule field                              *)
(* A mapping item is [key, t, s, b]: t = "str" (value s), t = "bool"       *)
(* (value b) or t = "spec" (a nested {type: number, match: s} rule).       *)
(***************************************************************************)
I(n) == [t |-> "int", n |-> n, s |-> <<>>, d |-> <<>>]
S(cs) == [t |-> "str", n |-> 0, s |-> cs, d |-> <<>>]
D(items) == [t |-> "dict", n |-> 0, s |-> <<>>, d |-> items]
None == [t |-> "none", n |-> 0, s |-> <<>>, d |-> <<>>]

KS(k, cs) == [key |-> k, t |-> "str", s |-> cs, b |-> FALSE]
KB(k, b) == [key |-> k, t |-> "bool", s |-> <<>>, b |-> b]
KSpec(k, cs) == [key |-> k, t |-> "spec", s |-> cs, b |-> FALSE]

\* the actual value handed to a handler: a list of values, or a non-sequence
List(items) == [kind |-> "list", items |-> items]
NotAList == [kind |-> "int", items |-> <<>>]

(***************************************************************************)
(* Characters, in code point order.                                        *)
(***************************************************************************)
Alphabet == <<" ", "!", "0", "1", "2", "3", "4", "5", "6", "7", "8", "9",
              "<", "=", ">", "A", "B", "C", "a", "b", "c">>

Digits == <<"0", "1", "2", "3", "4", "5", "6", "7", "8", "9">>

CharCode(c) == CHOOSE i \in 1..Len(Alphabet) : Alphabet[i] = c

IsDigit(c) == \E i \in 1..Len(Digits) : Digits[i] = c

DigitVal(c) == (CHOOSE i \in 1..Len(Digits) : Digits[i] = c) - 1

\* str.lower() on one character
LowerChar(c) == CASE c = "A" -> "a" [] c = "B" -> "b" [] c = "C" -> "c" [] OTHER -> c

Lower(cs) == [i \in 1..Len(cs) |-> LowerChar(cs[i])]

\* str.strip(): leading and trailing blanks removed
RECURSIVE LStrip(_)
LStrip(cs) == IF cs # <<>> /\ Head(cs) = " " THEN LStrip(Tail(cs)) ELSE cs

RECURSIVE RStrip(_)
RStrip(cs) ==
    IF cs # <<>> /\ cs[Len(cs)] = " " THEN RStrip(SubSeq(cs, 1, Len(cs) - 1)) ELSE cs

Strip(cs) == RStrip(LStrip(cs))

IsNumeral(cs) == cs # <<>> /\ \A i \in 1..Len(cs) : IsDigit(cs[i])

\* the value of a numeral, most significant digit first
RECURSIVE NumeralVal(_)
NumeralVal(cs) ==
    IF cs = <<>> THEN 0
    ELSE 10 * NumeralVal(SubSeq(cs, 1, Len(cs) - 1)) + DigitVal(cs[Len(cs)])

\* str(n) for n >= 0
RECURSIVE Decimal(_)
Decimal(n) ==
    IF n < 10 THEN <<Digits[n + 1]>>
    ELSE Append(Decimal(n \div 10), Digits[(n % 10) + 1])

\* str(value) of a rule's scalar
StrOf(v) == IF v.t = "int" THEN Decimal(v.n) ELSE v.s

\* lexicographic order of two strings
RECURSIVE StrLess(_, _)
StrLess(a, b) ==
    IF b = <<>> THEN FALSE
    ELSE IF a = <<>> THEN TRUE
    ELSE IF Head(a) = Head(b) THEN StrLess(Tail(a), Tail(b))
    ELSE CharCode(Head(a)) < CharCode(Head(b))

(***************************************************************************)
(* is_integer(value): int(value) succeeds.  int() of a str strips blanks   *)
(* and reads a numeral; int() of a mapping or None is a TypeError.         *)
(***************************************************************************)
is_integer(v) ==
    \/ v.t = "int"
    \/ v.t = "str" /\ IsNumeral(Strip(v.s))

int(v) == IF v.t = "int" THEN v.n ELSE NumeralVal(Strip(v.s))

(***************************************************************************)
(* runner_utils.apply_case_on_string(value, ignore_case): a string is      *)
(* lower-cased when ignore_case is set; any other value passes through.    *)
(***************************************************************************)
apply_case_on_string(v, ignore_case) ==
    IF ignore_case /\ v.t = "str" THEN S(Lower(v.s)) ELSE v

(***************************************************************************)
(* Python ==  on values: an int never equals a str; mappings are equal     *)
(* when they hold the same items, whatever their insertion order.          *)
(***************************************************************************)
HasKey(d, k) == \E i \in 1..Len(d) : d[i].key = k

Get(d, k) == d[CHOOSE i \in 1..Len(d) : d[i].key = k]

ItemEq(p, q) == p.t = q.t /\ p.s = q.s /\ p.b = q.b

DictEq(d, e) ==
    /\ Len(d) = Len(e)
    /\ \A i \in 1..Len(d) : HasKey(e, d[i].key) /\ ItemEq(d[i], Get(e, d[i].key))

PyEq(a, b) ==
    /\ a.t = b.t
    /\ CASE a.t = "int" -> a.n = b.n
         [] a.t = "str" -> a.s = b.s
         [] a.t = "dict" -> DictEq(a.d, b.d)
         [] OTHER -> TRUE

ListEq(x, y) == Len(x) = Len(y) /\ \A i \in 1..Len(x) : PyEq(x[i], y[i])

(***************************************************************************)
(* The number comparator (hubblestack/comparators/number.py), reached      *)
(* through comparator.run with {"type": "number", ...}.  An expression is  *)
(* an int (equality) or a string: an optional operator among               *)
(* >, >=, <, <=, ==, != and a numeral.                                     *)
(***************************************************************************)
StartsWith(cs, c1, c2) == Len(cs) >= 2 /\ cs[1] = c1 /\ cs[2] = c2

ExprOp(cs) ==
    CASE StartsWith(cs, ">", "=") -> ">="
      [] StartsWith(cs, "<", "=") -> "<="
      [] StartsWith(cs, "=", "=") -> "=="
      [] StartsWith(cs, "!", "=") -> "!="
      [] cs # <<>> /\ cs[1] = ">" -> ">"
      [] cs # <<>> /\ cs[1] = "<" -> "<"
      [] OTHER -> ""

ExprOpLen(cs) ==
    CASE ExprOp(cs) \in {">=", "<=", "==", "!="} -> 2
      [] ExprOp(cs) \in {">", "<"} -> 1
      [] OTHER -> 0

ExprNumeral(cs) == Strip(SubSeq(Strip(cs), ExprOpLen(Strip(cs)) + 1, Len(Strip(cs))))

WellFormedExpr(e) ==
    \/ e.t = "int"
    \/ e.t = "str" /\ IsNumeral(ExprNumeral(e.s))

NumberCompare(n, op, m) ==
    CASE op = ">=" -> n >= m
      [] op = "<=" -> n <= m
      [] op = "!=" -> n # m
      [] op = ">" -> n > m
      [] op = "<" -> n < m
      [] OTHER -> n = m

\* number::match of the integer n against the expression e
NumberAccepts(n, e) ==
    IF e.t = "int" THEN n = e.n
    ELSE /\ WellFormedExpr(e)
         /\ NumberCompare(n, ExprOp(Strip(e.s)), NumeralVal(ExprNumeral(e.s)))

\* comparator.run(audit_id, {"type": "number", "match": e}, v)
run_number_match(e, v) == v.t = "int" /\ NumberAccepts(v.n, e)

\* comparator.run(audit_id, {"type": "number", "match_any": es}, v)
run_number_match_any(es, v) ==
    \E i \in 1..Len(es) : run_number_match(es[i], v)

(***************************************************************************)
(* The mapping comparator (hubblestack/comparators/dict.py), reached       *)
(* through comparator.run with {"type": "dict", ...}: every item of the    *)
(* pattern is found in the actual mapping with an equal value; an actual   *)
(* value that is not a mapping fails.                                      *)
(***************************************************************************)
ItemValue(q) == IF q.t = "str" THEN S(q.s) ELSE None

ItemAccepts(p, q, ignore_case) ==
    CASE p.t = "spec" -> run_number_match(S(p.s), ItemValue(q))
      [] p.t = "bool" -> q.t = "bool" /\ q.b = p.b
      [] OTHER -> /\ q.t = "str"
                  /\ apply_case_on_string(S(p.s), ignore_case)
                       = apply_case_on_string(S(q.s), ignore_case)

DictAccepts(pattern, v, ignore_case) ==
    /\ v.t = "dict"
    /\ pattern.t = "dict"
    /\ \A i \in 1..Len(pattern.d) :
          /\ HasKey(v.d, pattern.d[i].key)
          /\ ItemAccepts(pattern.d[i], Get(v.d, pattern.d[i].key), ignore_case)

\* comparator.run(audit_id, {"type": "dict", "match": pattern, "ignore_case": ic}, v)
\* as the pair (ret_status, ret_val)
run_dict_match(pattern, ignore_case, v) ==
    IF DictAccepts(pattern, v, ignore_case)
    THEN [status |-> TRUE, val |-> "Dictionary comparison passed"]
    ELSE [status |-> FALSE, val |-> "dict::match failed"]

\* comparator.run(audit_id, {"type": "dict", "match_any": patterns, "ignore_case": ic}, v)
run_dict_match_any(patterns, ignore_case, v) ==
    \E i \in 1..Len(patterns) : DictAccepts(patterns[i], v, ignore_case)

(***************************************************************************)
(* What a handler leaves behind: the returned (status, message), or the    *)
(* exception that left it; the caller's objects as the handler left them;  *)
(* and how many times it called comparator.run.                            *)
(***************************************************************************)
TextArg(cs) == [k |-> "text", s |-> cs, v |-> List(<<>>)]
ObjArg(x) == [k |-> "obj", s |-> <<>>, v |-> x]

Msg(text, fmt) == [text |-> text, fmt |-> fmt]

CheckPassed == Msg("Check Passed", <<>>)

Outcome(status, msg, rtc, a, n) ==
    [status |-> status, msg |-> msg, rtc |-> rtc, args |-> a, calls |-> n]

Raise(exc, rtc, a, n) == Outcome("raise", Msg(exc, <<>>), rtc, a, n)

(***************************************************************************)
(* size                                                                    *)
(***************************************************************************)
\* size with the length counted from zero
SizeOffByOne(rtc, a) ==
    IF rtc.kind # "list"
    THEN {Raise("TypeError", rtc, a, 0)}
    ELSE IF run_number_match(a.size, I(Len(rtc.items) - 1))
         THEN {Outcome("pass", CheckPassed, rtc, a, 1)}
         ELSE {Outcome("fail",
                       Msg("list::size failure. Expected={0} Got={1}",
                           <<TextArg(Decimal(Len(rtc.items))), TextArg(StrOf(a.size))>>),
                       rtc, a, 1)}

Size(rtc, a) ==
    IF rtc.kind # "list"
    THEN {Raise("TypeError", rtc, a, 0)}
    ELSE IF run_number_match(a.size, I(Len(rtc.items)))
         THEN {Outcome("pass", CheckPassed, rtc, a, 1)}
         ELSE {Outcome("fail",
                       Msg("list::size failure. Expected={0} Got={1}",
                           <<TextArg(Decimal(Len(rtc.items))), TextArg(StrOf(a.size))>>),
                       rtc, a, 1)}

(***************************************************************************)
(* list.sort().  key = "" is the natural ordering; any other key sorts     *)
(* mappings by their value under that key (key=lambda i: i[sort_key]).     *)
(* The sort is stable.  The keys are computed before anything moves, so a  *)
(* failing key function leaves the list as it was; a comparison that       *)
(* fails (TypeError) may leave the list in any order.                      *)
(***************************************************************************)
\* the exception of i[sort_key], or "" when it yields a value
KeyError(v, key) ==
    IF key = "" THEN ""
    ELSE IF v.t # "dict" THEN "TypeError"
    ELSE IF ~HasKey(v.d, key) THEN "KeyError"
    ELSE ""

\* the exception of the first failing key computation over the list, or ""
RECURSIVE SortKeyError(_, _)
SortKeyError(seq, key) ==
    IF seq = <<>> THEN ""
    ELSE IF KeyError(Head(seq), key) # "" THEN KeyError(Head(seq), key)
    ELSE SortKeyError(Tail(seq), key)

\* whether  a < b  is defined for the two sort keys
Comparable(a, b, key) ==
    IF key = "" THEN a.t = b.t /\ a.t \in {"int", "str"}
    ELSE Get(a.d, key).t = Get(b.d, key).t /\ Get(a.d, key).t \in {"str", "bool"}

\* a < b on the sort keys
Less(a, b, key) ==
    IF key = ""
    THEN IF a.t = "int" THEN a.n < b.n ELSE StrLess(a.s, b.s)
    ELSE IF Get(a.d, key).t = "bool"
         THEN ~Get(a.d, key).b /\ Get(b.d, key).b
         ELSE StrLess(Get(a.d, key).s, Get(b.d, key).s)

\* x put into the sorted sequence behind every element that is not greater
RECURSIVE Insert(_, _, _)
Insert(sorted, x, key) ==
    IF sorted = <<>> THEN <<x>>
    ELSE IF Less(x, Head(sorted), key) THEN <<x>> \o sorted
    ELSE <<Head(sorted)>> \o Insert(Tail(sorted), x, key)

RECURSIVE Sorted(_, _)
Sorted(seq, key) ==
    IF seq = <<>> THEN <<>>
    ELSE Insert(Sorted(SubSeq(seq, 1, Len(seq) - 1), key), seq[Len(seq)], key)

Orders(seq) ==
    {[i \in 1..Len(seq) |-> seq[p[i]]] :
        p \in {q \in [1..Len(seq) -> 1..Len(seq)] :
                 \A i, j \in 1..Len(seq) : i # j => q[i] # q[j]}}

\* seq.sort(...): the exception ("" for none) and the orders the list may be left in
Sort(seq, key) ==
    IF SortKeyError(seq, key) # ""
    THEN [exc |-> SortKeyError(seq, key), lists |-> {seq}]
    ELSE IF \E i, j \in 1..Len(seq) : i # j /\ ~Comparable(seq[i], seq[j], key)
    THEN [exc |-> "TypeError", lists |-> Orders(seq)]
    ELSE [exc |-> "", lists |-> {Sorted(seq, key)}]

(***************************************************************************)
(* match                                                                   *)
(***************************************************************************)
\* lines 179-181: the comparison of the two sorted lists
MatchCompare(items, expected, a, n) ==
    IF ListEq(items, expected)
    THEN Outcome("pass", CheckPassed, List(items), [a EXCEPT !.match = expected], n)
    ELSE Outcome("fail", Msg("list::match failure. Got={0}", <<ObjArg(List(items))>>),
                 List(items), [a EXCEPT !.match = expected], n)

\* lines 170-178: both lists sorted in place, the actual one first
MatchSort(items, a, key, n) ==
    LET sa == Sort(items, key) IN
    IF sa.exc # ""
    THEN {Raise(sa.exc, List(l), a, n) : l \in sa.lists}
    ELSE LET sorted == CHOOSE l \in sa.lists : TRUE
             se == Sort(a.match, key)
         IN  IF se.exc # ""
             THEN {Raise(se.exc, List(sorted), [a EXCEPT !.match = l], n) : l \in se.lists}
             ELSE {MatchCompare(sorted, l, a, n) : l \in se.lists}

\* lines 170-172: the sort key is the first key of the first actual mapping
MatchNormalize(items, a, n) ==
    IF items[1].t = "dict"
    THEN IF items[1].d = <<>>
         THEN {Raise("IndexError", List(items), a, n)}
         ELSE MatchSort(items, a, items[1].d[1].key, n)
    ELSE MatchSort(items, a, "", n)

\* lines 163-181: the actual value is a non-empty list
MatchNonEmpty(rtc, a) ==
    IF is_integer(rtc.items[1])
    THEN IF a.match = <<>>
         THEN {Raise("IndexError", rtc, a, 0)}
         ELSE IF run_number_match(a.match[1], I(int(rtc.items[1])))
              THEN {Outcome("pass", CheckPassed, rtc, a, 1)}
              ELSE MatchNormalize(rtc.items, a, 1)
    ELSE MatchNormalize(rtc.items, a, 0)

\* match without the len() == 0 test of line 160
MatchWithoutEmptyTest(rtc, a) ==
    IF rtc.kind # "list"
    THEN {Outcome("fail",
                  Msg("list::match failure. {0} is not an instance of list", <<ObjArg(rtc)>>),
                  rtc, a, 0)}
    ELSE IF rtc.items = <<>> THEN MatchSort(rtc.items, a, "", 0)
    ELSE MatchNonEmpty(rtc, a)

Match(rtc, a) ==
    IF rtc.kind # "list" \/ Len(rtc.items) = 0
    THEN {Outcome("fail",
                  Msg("list::match failure. {0} is not an instance of list", <<ObjArg(rtc)>>),
                  rtc, a, 0)}
    ELSE MatchNonEmpty(rtc, a)

(***************************************************************************)
(* 'type' in to_compare[dict_key], for the first item of a pattern that is *)
(* a mapping: a nested rule carries the tag; a string is searched for the  *)
(* substring (no string of the model holds it); a bool is not iterable.    *)
(***************************************************************************)
TypeTag(item) ==
    CASE item.t = "spec" -> "yes"
      [] item.t = "bool" -> "TypeError"
      [] OTHER -> "no"

\* what one step of a scan found: "pass", "raise" (with exc), or "" to go on
Found(status, exc, n) == [status |-> status, exc |-> exc, calls |-> n]

(***************************************************************************)
(* match_any                                                               *)
(***************************************************************************)
\* lines 215-232: the patterns, from the j-th on, against the scalar r
RECURSIVE MatchAnyDirect(_, _, _, _, _)
MatchAnyDirect(r, patterns, j, ignore_case, n) ==
    IF j > Len(patterns) THEN Found("", "", n)
    ELSE LET to_compare == patterns[j] IN
         IF to_compare.t = "dict"
         THEN IF to_compare.d = <<>> THEN Found("raise", "IndexError", n)
              ELSE IF TypeTag(to_compare.d[1]) = "TypeError"
                   THEN Found("raise", "TypeError", n)
              ELSE IF TypeTag(to_compare.d[1]) = "yes"
                   THEN IF run_number_match(S(to_compare.d[1].s), r)
                        THEN Found("pass", "", n + 1)
                        ELSE MatchAnyDirect(r, patterns, j + 1, ignore_case, n + 1)
              ELSE MatchAnyDirect(r, patterns, j + 1, ignore_case, n)
         ELSE IF PyEq(apply_case_on_string(to_compare, ignore_case),
                      apply_case_on_string(r, ignore_case))
              THEN Found("pass", "", n)
              ELSE MatchAnyDirect(r, patterns, j + 1, ignore_case, n)

\* lines 197-234: the actual elements, from the i-th on
RECURSIVE MatchAnyScan(_, _, _, _)
MatchAnyScan(rtc, i, a, n) ==
    IF i > Len(rtc.items)
    THEN Outcome("fail", Msg("list::match_any failure. Got={0}", <<ObjArg(rtc)>>), rtc, a, n)
    ELSE LET r_compare == rtc.items[i]
             n1 == IF is_integer(r_compare) THEN n + 1 ELSE n
         IN  IF is_integer(r_compare) /\ run_number_match_any(a.match_any, I(int(r_compare)))
             THEN Outcome("pass", CheckPassed, rtc, a, n1)
             ELSE IF r_compare.t = "dict"
             THEN IF run_dict_match_any(a.match_any, a.ignore_case, r_compare)
                  THEN Outcome("pass", CheckPassed, rtc, a, n1 + 1)
                  ELSE MatchAnyScan(rtc, i + 1, a, n1 + 1)
             ELSE LET d == MatchAnyDirect(r_compare, a.match_any, 1, a.ignore_case, n1) IN
                  CASE d.status = "pass" -> Outcome("pass", CheckPassed, rtc, a, d.calls)
                    [] d.status = "raise" -> Raise(d.exc, rtc, a, d.calls)
                    [] OTHER -> MatchAnyScan(rtc, i + 1, a, d.calls)

MatchAny(rtc, a) ==
    IF rtc.kind # "list"
    THEN {Raise("TypeError", rtc, a, 0)}
    ELSE {MatchAnyScan(rtc, 1, a, 0)}

(***************************************************************************)
(* match_all                                                               *)
(***************************************************************************)
\* lines 253-278: the actual elements, from the i-th on, against one pattern
RECURSIVE MatchAllFind(_, _, _, _, _)
MatchAllFind(items, i, to_compare, ignore_case, n) ==
    IF i > Len(items) THEN Found("", "", n)
    ELSE LET r_compare == items[i] IN
         IF r_compare.t = "dict"
         THEN IF run_dict_match(to_compare, ignore_case, r_compare).status
              THEN Found("pass", "", n + 1)
              ELSE MatchAllFind(items, i + 1, to_compare, ignore_case, n + 1)
         ELSE IF to_compare.t = "dict"
         THEN IF to_compare.d = <<>> THEN Found("raise", "IndexError", n)
              ELSE IF TypeTag(to_compare.d[1]) = "TypeError"
                   THEN Found("raise", "TypeError", n)
              ELSE IF TypeTag(to_compare.d[1]) = "yes"
                   THEN IF run_number_match(S(to_compare.d[1].s), r_compare)
                        THEN Found("pass", "", n + 1)
                        ELSE MatchAllFind(items, i + 1, to_compare, ignore_case, n + 1)
              ELSE MatchAllFind(items, i + 1, to_compare, ignore_case, n)
         ELSE IF PyEq(apply_case_on_string(r_compare, ignore_case),
                      apply_case_on_string(to_compare, ignore_case))
              THEN Found("pass", "", n)
              ELSE MatchAllFind(items, i + 1, to_compare, ignore_case, n)

\* lines 251-281: the patterns, from the j-th on
RECURSIVE MatchAllScan(_, _, _, _)
MatchAllScan(rtc, j, a, n) ==
    IF j > Len(a.match_all) THEN Outcome("pass", CheckPassed, rtc, a, n)
    ELSE IF rtc.kind # "list" THEN Raise("TypeError", rtc, a, n)
    ELSE LET f == MatchAllFind(rtc.items, 1, a.match_all[j], a.ignore_case, n) IN
         CASE f.status = "pass" -> MatchAllScan(rtc, j + 1, a, f.calls)
           [] f.status = "raise" -> Raise(f.exc, rtc, a, f.calls)
           [] OTHER -> Outcome("fail", Msg("Check failed, got={0}", <<ObjArg(rtc)>>),
                               rtc, a, f.calls)

MatchAll(rtc, a) == {MatchAllScan(rtc, 1, a, 0)}

(***************************************************************************)
(* match_any_if_keyvalue_matches                                           *)
(***************************************************************************)
\* r_compare[key_name] == arg_list.get(key_name, None)
KeyValueEq(r_compare, arg_list, key_name) ==
    /\ HasKey(arg_list.d, key_name)
    /\ ItemEq(Get(r_compare.d, key_name), Get(arg_list.d, key_name))

\* lines 326-341: the attribute sets, from the j-th on, against one element
RECURSIVE KeyValueArgs(_, _, _, _, _, _)
KeyValueArgs(r_compare, a, j, failed_once, n, key_name) ==
    IF j > Len(a.kv_args) THEN [status |-> "", exc |-> "", calls |-> n, failed_once |-> failed_once]
    ELSE IF KeyError(r_compare, key_name) # ""
    THEN [status |-> "raise", exc |-> KeyError(r_compare, key_name), calls |-> n,
          failed_once |-> failed_once]
    ELSE IF ~KeyValueEq(r_compare, a.kv_args[j], key_name)
    THEN KeyValueArgs(r_compare, a, j + 1, failed_once, n, key_name)
    ELSE LET r == run_dict_match(a.kv_args[j], a.ignore_case, r_compare) IN
         IF r.status /\ r.val # "pass_as_key_not_found"
         THEN [status |-> "pass", exc |-> "", calls |-> n + 1, failed_once |-> failed_once]
         ELSE KeyValueArgs(r_compare, a, j + 1, failed_once \/ ~r.status, n + 1, key_name)

\* lines 325-345: the actual elements, from the i-th on
RECURSIVE KeyValueScan(_, _, _, _, _)
KeyValueScan(rtc, i, a, failed_once, n) ==
    IF i > Len(rtc.items)
    THEN IF failed_once
         THEN Outcome("fail",
                      Msg("list::match_any_if_keyvalue_matches failure. Got={0}", <<ObjArg(rtc)>>),
                      rtc, a, n)
         ELSE Outcome("pass", CheckPassed, rtc, a, n)
    ELSE LET f == KeyValueArgs(rtc.items[i], a, 1, failed_once, n, a.match_key) IN
         CASE f.status = "pass" -> Outcome("pass", CheckPassed, rtc, a, f.calls)
           [] f.status = "raise" -> Raise(f.exc, rtc, a, f.calls)
           [] OTHER -> KeyValueScan(rtc, i + 1, a, f.failed_once, f.calls)

MatchAnyIfKeyvalueMatches(rtc, a) ==
    IF rtc.kind # "list"
    THEN {Raise("TypeError", rtc, a, 0)}
    ELSE {KeyValueScan(rtc, 1, a, FALSE, 0)}

(***************************************************************************)
(* filter_compare                                                          *)
(***************************************************************************)
\* lines 361-368: the elements the filter accepts, in their order
RECURSIVE Filtered(_, _)
Filtered(items, filter_dict_args) ==
    IF items = <<>> THEN <<>>
    ELSE IF run_dict_match(filter_dict_args, FALSE, Head(items)).status
         THEN <<Head(items)>> \o Filtered(Tail(items), filter_dict_args)
         ELSE Filtered(Tail(items), filter_dict_args)

\* comparator.run(audit_id, {"type": "list", ...}, value): the handler of the rule key
RECURSIVE ListRun(_, _)

\* filter_compare with the compare body run on the whole actual list
FilterCompareUnfiltered(rtc, a) ==
    IF rtc.kind # "list"
    THEN {Raise("TypeError", rtc, a, 0)}
    ELSE {Outcome(o.status, o.msg, rtc, [a EXCEPT !.compare = <<o.args>>],
                  Len(rtc.items) + 1 + o.calls) :
             o \in ListRun(a.compare[1], rtc)}

\* filter_compare filtering the caller's list in place
FilterCompareInPlace(rtc, a) ==
    IF rtc.kind # "list"
    THEN {Raise("TypeError", rtc, a, 0)}
    ELSE {Outcome(o.status, o.msg, o.rtc, [a EXCEPT !.compare = <<o.args>>],
                  Len(rtc.items) + 1 + o.calls) :
             o \in ListRun(a.compare[1], List(Filtered(rtc.items, a.filter)))}

\* lines 371-376: the nested rule shares its lists with the caller's compare body
FilterCompare(rtc, a) ==
    IF rtc.kind # "list"
    THEN {Raise("TypeError", rtc, a, 0)}
    ELSE LET filtered_list == List(Filtered(rtc.items, a.filter))
             filter_comparator_args == a.compare[1]
         IN  {Outcome(o.status, o.msg, rtc, [a EXCEPT !.compare = <<o.args>>],
                      Len(rtc.items) + 1 + o.calls) :
                 o \in ListRun(filter_comparator_args, filtered_list)}

ListRun(a, rtc) ==
    CASE a.cmd = "size" -> Size(rtc, a)
      [] a.cmd = "match" -> Match(rtc, a)
      [] a.cmd = "match_any" -> MatchAny(rtc, a)
      [] a.cmd = "match_all" -> MatchAll(rtc, a)
      [] a.cmd = "match_any_if_keyvalue_matches" -> MatchAnyIfKeyvalueMatches(rtc, a)
      [] a.cmd = "filter_compare" -> FilterCompare(rtc, a)

(***************************************************************************)
(* The rule specification: the comparator dictionary of a check.  cmd is   *)
(* the one rule key present; the fields of the other rule keys are absent  *)
(* (None, or empty).  compare holds filter_compare's nested rule body, as  *)
(* a sequence of at most one rule.                                         *)
(***************************************************************************)
NoRule ==
    [type |-> "list", cmd |-> "", ignore_case |-> FALSE, size |-> None,
     match |-> <<>>, match_any |-> <<>>, match_all |-> <<>>,
     match_key |-> "", kv_args |-> <<>>, filter |-> None, compare |-> <<>>]

SizeRule(e) == [NoRule EXCEPT !.cmd = "size", !.size = e]

MatchRule(expected) == [NoRule EXCEPT !.cmd = "match", !.match = expected]

MatchAnyRule(patterns, ic) ==
    [NoRule EXCEPT !.cmd = "match_any", !.match_any = patterns, !.ignore_case = ic]

MatchAllRule(patterns, ic) ==
    [NoRule EXCEPT !.cmd = "match_all", !.match_all = patterns, !.ignore_case = ic]

KeyValueRule(key, sets, ic) ==
    [NoRule EXCEPT !.cmd = "match_any_if_keyvalue_matches", !.match_key = key,
                   !.kv_args = sets, !.ignore_case = ic]

FilterCompareRule(filter, body) ==
    [NoRule EXCEPT !.cmd = "filter_compare", !.filter = filter, !.compare = <<body>>]

\* the sequences over a set, up to a length
SeqsUpTo(set, n) == UNION {[1..k -> set] : k \in 0..n}

(***************************************************************************)
(* The inputs of the model: for each handler, well-formed rules and the    *)
(* actual values a probe may hand over, a non-sequence among them.         *)
(***************************************************************************)
Actuals(values) == {List(l) : l \in SeqsUpTo(values, MaxLen)} \cup {NotAList}

Abc == D(<<KS("name", <<"a", "b", "c">>), KB("running", FALSE)>>)
AbcRunning == D(<<KS("name", <<"a", "b", "c">>), KB("running", TRUE)>>)
AbcUpper == D(<<KS("name", <<"A", "B", "C">>), KB("running", FALSE)>>)
Cab == D(<<KS("name", <<"c", "a", "b">>), KB("running", FALSE)>>)
NameAbc == D(<<KS("name", <<"a", "b", "c">>)>>)
NotRunning == D(<<KB("running", FALSE)>>)
Over3 == D(<<KSpec("offset", <<">", " ", "3">>)>>)

SizeExprs ==
    {I(0), I(2), S(<<">", "=", " ", "1">>), S(<<"<", "2">>), S(<<"!", "=", "1">>),
     S(<<"=", "=", "0">>), S(<<">", "1">>), S(<<"<", "=", "1">>), S(<<"1", "0">>)}

InitSize ==
    /\ result_to_compare \in Actuals({I(1), S(<<"a">>), Abc})
    /\ args \in {SizeRule(e) : e \in SizeExprs}

MatchValues == {I(1), I(2), S(<<"0", "1">>), Abc, AbcRunning, NotRunning}

InitMatch ==
    /\ result_to_compare \in Actuals(MatchValues)
    /\ args \in {MatchRule(l) : l \in SeqsUpTo(MatchValues, MaxExp)}

ScalarValues == {I(5), S(<<"5">>), S(<<"a">>), S(<<"A">>), Abc, AbcUpper}

Patterns == {I(5), S(<<"a">>), S(<<">", "3">>), Over3, NameAbc, NotRunning}

InitMatchAny ==
    /\ result_to_compare \in Actuals(ScalarValues)
    /\ args \in {MatchAnyRule(l, ic) : l \in SeqsUpTo(Patterns, MaxExp), ic \in BOOLEAN}

InitMatchAll ==
    /\ result_to_compare \in Actuals(ScalarValues)
    /\ args \in {MatchAllRule(l, ic) : l \in SeqsUpTo(Patterns, MaxExp), ic \in BOOLEAN}

KeyValueActuals == {Abc, AbcRunning, AbcUpper, Cab, NotRunning, S(<<"a">>)}

KeyValueSets == {Abc, AbcRunning, Cab, NotRunning}

InitKeyValue ==
    /\ result_to_compare \in Actuals(KeyValueActuals)
    /\ args \in {KeyValueRule("name", l, ic) :
                    l \in SeqsUpTo(KeyValueSets, MaxExp), ic \in BOOLEAN}

FilterActuals == {Abc, AbcRunning, Cab, NotRunning, S(<<"a">>)}

Filters == {NameAbc, NotRunning, D(<<>>)}

\* the nested rule bodies of filter_compare
InnerBodies ==
    {SizeRule(e) : e \in {I(1), S(<<">", "=", "1">>)}}
    \cup {MatchRule(l) : l \in SeqsUpTo({Abc, AbcRunning, NotRunning}, MaxExp)}
    \cup {MatchAnyRule(<<p>>, FALSE) : p \in {NameAbc, NotRunning}}
    \cup {MatchAllRule(<<p>>, FALSE) : p \in {NameAbc, NotRunning}}
    \cup {KeyValueRule("name", <<p>>, FALSE) : p \in {Abc, AbcRunning}}

CompareBodies ==
    InnerBodies
    \cup {FilterCompareRule(NotRunning, b) : b \in {SizeRule(I(1)), MatchRule(<<AbcRunning, Abc>>)}}

InitFilterCompare ==
    /\ result_to_compare \in Actuals(FilterActuals)
    /\ args \in {FilterCompareRule(f, b) : f \in Filters, b \in CompareBodies}

Init ==
    /\ \/ InitSize
       \/ InitMatch
       \/ InitMatchAny
       \/ InitMatchAll
       \/ InitKeyValue
       \/ InitFilterCompare
    /\ ret = [status |-> "", msg |-> Msg("", <<>>)]
    /\ calls = 0
    /\ given = [result_to_compare |-> result_to_compare, args |-> args]
    /\ pc = "call"

(***************************************************************************)
(* A call of the handler the rule names: it returns or raises, leaving     *)
(* the caller's actual value and rule as the handler left them.            *)
(***************************************************************************)
Return(outcomes) ==
    \E o \in outcomes :
        /\ ret' = [status |-> o.status, msg |-> o.msg]
        /\ result_to_compare' = o.rtc
        /\ args' = o.args
        /\ calls' = o.calls
        /\ pc' = "done"
        /\ UNCHANGED given

size == pc = "call" /\ args.cmd = "size" /\ Return(Size(result_to_compare, args))

match == pc = "call" /\ args.cmd = "match" /\ Return(Match(result_to_compare, args))

match_any == pc = "call" /\ args.cmd = "match_any" /\ Return(MatchAny(result_to_compare, args))

match_all == pc = "call" /\ args.cmd = "match_all" /\ Return(MatchAll(result_to_compare, args))

match_any_if_keyvalue_matches ==
    /\ pc = "call"
    /\ args.cmd = "match_any_if_keyvalue_matches"
    /\ Return(MatchAnyIfKeyvalueMatches(result_to_compare, args))

filter_compare ==
    pc = "call" /\ args.cmd = "filter_compare" /\ Return(FilterCompare(result_to_compare, args))

Next ==
    \/ size
    \/ match
    \/ match_any
    \/ match_all
    \/ match_any_if_keyvalue_matches
    \/ filter_compare

Spec == Init /\ [][Next]_vars

(***************************************************************************)
(* The claims.  given holds the caller's inputs as they were handed over.  *)
(***************************************************************************)
Done(cmd) == pc = "done" /\ given.args.cmd = cmd

GivenList == given.result_to_compare.kind = "list"

Actual == given.result_to_compare.items

Returned == ret.status \in {"pass", "fail"}

\* how many elements of the sequence equal x
Count(seq, x) == Cardinality({i \in 1..Len(seq) : PyEq(seq[i], x)})

SameMultiset(x, y) ==
    /\ Len(x) = Len(y)
    /\ \A i \in 1..Len(x) : Count(x, x[i]) = Count(y, x[i])

(***************************************************************************)
(* C6: size's verdict is the number comparator's verdict on the length of  *)
(* the sequence, the empty sequence included.                              *)
(***************************************************************************)
SizeIsNumberCompareOfLength ==
    Done("size") /\ GivenList =>
        /\ Returned
        /\ ret.status = "pass" <=> NumberAccepts(Len(Actual), given.args.size)

SizeOfEmptyAccepted ==
    Done("size") /\ GivenList /\ Actual = <<>> /\ ret.status = "pass"

(***************************************************************************)
(* C10: a failing size reports the rule's expression after "Expected="     *)
(* and the length of the sequence after "Got="; "Check Passed" comes only  *)
(* with a pass.                                                            *)
(***************************************************************************)
SizeFailureReportsExpectedAndGot ==
    Done("size") =>
        /\ ret.msg.text = "Check Passed" => ret.status = "pass"
        /\ ret.status = "fail" =>
              /\ ret.msg.text = "list::size failure. Expected={0} Got={1}"
              /\ ret.msg.fmt[1].s = StrOf(given.args.size)
              /\ ret.msg.fmt[2].s = Decimal(Len(Actual))

(***************************************************************************)
(* C9: match on a non-sequence or an empty sequence returns fail, calls    *)
(* no comparator and leaves the actual value and the rule as they were.    *)
(***************************************************************************)
MatchRejectsNonSequenceAndEmpty ==
    Done("match") /\ (~GivenList \/ Actual = <<>>) =>
        /\ ret.status = "fail"
        /\ calls = 0
        /\ result_to_compare = given.result_to_compare
        /\ args = given.args

MatchOfEmptyAgainstEmptyFails ==
    Done("match") /\ GivenList /\ Actual = <<>> /\ given.args.match = <<>>
        /\ ret.status = "fail"

(***************************************************************************)
(* C2: on a non-empty actual sequence match passes when actual and         *)
(* expected hold the same elements with the same multiplicities, and       *)
(* fails when they do not.                                                 *)
(***************************************************************************)
MatchIsMultisetEquality ==
    Done("match") /\ GivenList /\ Actual # <<>> =>
        /\ SameMultiset(Actual, given.args.match) => ret.status = "pass"
        /\ ~SameMultiset(Actual, given.args.match) => ret.status = "fail"

(***************************************************************************)
(* C7: every handler returns a verdict; none raises.                       *)
(***************************************************************************)
HandlersNeverRaise == pc = "done" => Returned

(***************************************************************************)
(* C3: match_all passes exactly when every expected pattern is satisfied   *)
(* by some actual element; an empty pattern list passes.                   *)
(***************************************************************************)
\* the pattern's own rule, when its first item carries a type tag
Tagged(pattern) == pattern.t = "dict" /\ pattern.d # <<>> /\ pattern.d[1].t = "spec"

SatisfiesAll(r, pattern, ignore_case) ==
    IF r.t = "dict" THEN DictAccepts(pattern, r, ignore_case)
    ELSE IF pattern.t = "dict"
         THEN Tagged(pattern) /\ run_number_match(S(pattern.d[1].s), r)
         ELSE PyEq(apply_case_on_string(r, ignore_case),
                   apply_case_on_string(pattern, ignore_case))

MatchAllIsForAllExists ==
    Done("match_all") =>
        /\ given.args.match_all = <<>> => ret.status = "pass"
        /\ GivenList =>
              /\ Returned
              /\ ret.status = "pass" <=>
                    \A j \in 1..Len(given.args.match_all) :
                       \E i \in 1..Len(Actual) :
                          SatisfiesAll(Actual[i], given.args.match_all[j],
                                       given.args.ignore_case)

(***************************************************************************)
(* C4: match_any passes exactly when some actual element satisfies some    *)
(* expected pattern: a numeric-like element through the number             *)
(* comparator, a mapping through the mapping comparator, any other scalar  *)
(* through the pattern's own tagged rule or case-normalized equality; and  *)
(* reordering the actual sequence or the patterns keeps the verdict.       *)
(***************************************************************************)
SatisfiesAny(r, pattern, ignore_case) ==
    IF is_integer(r) THEN NumberAccepts(int(r), pattern)
    ELSE IF r.t = "dict" THEN DictAccepts(pattern, r, ignore_case)
    ELSE IF pattern.t = "dict"
         THEN Tagged(pattern) /\ run_number_match(S(pattern.d[1].s), r)
         ELSE PyEq(apply_case_on_string(pattern, ignore_case),
                   apply_case_on_string(r, ignore_case))

MatchAnyIsExistsExists ==
    Done("match_any") /\ GivenList =>
        /\ Returned
        /\ ret.status = "pass" <=>
              \E i \in 1..Len(Actual) : \E j \in 1..Len(given.args.match_any) :
                 SatisfiesAny(Actual[i], given.args.match_any[j], given.args.ignore_case)
        /\ \A l \in Orders(Actual) : \A ps \in Orders(given.args.match_any) :
              \A o \in MatchAny(List(l), [given.args EXCEPT !.match_any = ps]) :
                 o.status = ret.status

(***************************************************************************)
(* C1: match_any_if_keyvalue_matches on a sequence of mappings: pass when  *)
(* no element's match_key value equals an expected set's; pass when some   *)
(* pair with equal match_key values is accepted by the mapping             *)
(* comparator; fail when such pairs were compared and none was accepted.   *)
(***************************************************************************)
AllMappings(seq) == \A i \in 1..Len(seq) : seq[i].t = "dict"

\* the element and the attribute set carry equal values under match_key
KeyHit(r, set, key) ==
    /\ HasKey(r.d, key)
    /\ HasKey(set.d, key)
    /\ ItemEq(Get(r.d, key), Get(set.d, key))

KeyHits ==
    {<<i, j>> \in (1..Len(Actual)) \X (1..Len(given.args.kv_args)) :
        KeyHit(Actual[i], given.args.kv_args[j], given.args.match_key)}

KeyAccepted ==
    {h \in KeyHits :
        DictAccepts(given.args.kv_args[h[2]], Actual[h[1]], given.args.ignore_case)}

KeyValueIsTriState ==
    Done("match_any_if_keyvalue_matches") /\ GivenList /\ AllMappings(Actual) =>
        /\ KeyHits = {} => ret.status = "pass"
        /\ KeyAccepted # {} => ret.status = "pass"
        /\ KeyHits # {} /\ KeyAccepted = {} => ret.status = "fail"

(***************************************************************************)
(* C5: filter_compare returns the (verdict, message) the list comparator   *)
(* returns for the compare body on the elements the filter accepts, kept   *)
(* in their order.                                                         *)
(***************************************************************************)
FilterAccepts(r) == DictAccepts(given.args.filter, r, FALSE)

FilterCompareIsCompareOnFiltered ==
    Done("filter_compare") /\ GivenList =>
        \E o \in ListRun(given.args.compare[1], List(SelectSeq(Actual, FilterAccepts))) :
            ret = [status |-> o.status, msg |-> o.msg]

FilterDropsAndCompares ==
    /\ Done("filter_compare") /\ GivenList /\ Returned
    /\ \E i \in 1..Len(Actual) : ~FilterAccepts(Actual[i])
    /\ \E i \in 1..Len(Actual) : FilterAccepts(Actual[i])

(***************************************************************************)
(* C8: size, match_any, match_all, match_any_if_keyvalue_matches and       *)
(* filter_compare leave the caller's actual value and rule as they were.   *)
(***************************************************************************)
OnlyDirectMatchMutates ==
    pc = "done" /\ given.args.cmd # "match" =>
        /\ result_to_compare = given.result_to_compare
        /\ args = given.args

(***************************************************************************)
(* C8, amended: they leave the actual value as it was, and the rule too,   *)
(* except that a match nested in filter_compare's compare body sorts its   *)
(* expected list in place: the rule then differs from the caller's only    *)
(* in the order of that list.                                              *)
(***************************************************************************)
RECURSIVE SameButNestedMatchOrder(_, _)
SameButNestedMatchOrder(r, g) ==
    \/ r = g
    \/ /\ g.cmd = "filter_compare"
       /\ r = [g EXCEPT !.compare = r.compare]
       /\ Len(r.compare) = 1
       /\ LET b == r.compare[1]
              c == g.compare[1]
          IN  \/ /\ c.cmd = "match"
                 /\ b = [c EXCEPT !.match = b.match]
                 /\ b.match \in Orders(c.match)
              \/ SameButNestedMatchOrder(b, c)

OnlyMatchReordersExpected ==
    pc = "done" /\ given.args.cmd # "match" =>
        /\ result_to_compare = given.result_to_compare
        /\ SameButNestedMatchOrder(args, given.args)

NestedMatchReorderedExpected ==
    /\ Done("filter_compare")
    /\ args # given.args
    /\ result_to_compare = given.result_to_compare

====
